---- MODULE Spec2Model ----
(***************************************************************************)
(* Model of the TerraInsight wildfire-risk service:                        *)
(*   src/models/wildfire_risk_model.py  (class WildfireRiskModel)          *)
(*   src/models/api_server.py           (module-level model, endpoints)    *)
(*                                                                         *)
(* Numbers.  Feature values, scores and thresholds are integers.  ndvi and *)
(* ndmi are carried in tenths (the source's 0.6 is 6 here).  Quantities    *)
(* that the source computes by division are carried as exact fractions     *)
(* [num, den] or in a fixed unit named at the definition, so that no       *)
(* rounding is introduced by the model.                                    *)
(*                                                                         *)
(* A Python dict is a function whose DOMAIN is the set of keys present.    *)
(***************************************************************************)
EXTENDS Integers, Sequences, FiniteSets, TLC

VARIABLES
    model,       \* self.model: the weights of the regression function
    scaler,      \* self.scaler: StandardScaler, fitted or not, mean_/scale_
    disk,        \* the artifact directory: wildfire_risk_model.h5, scaler_params.npy
    provenance,  \* how self.model got its weights: "built", "loaded" or "trained"
    call,        \* the last call made: [fn, args]
    ret          \* its outcome: [raised, val]

vars == <<model, scaler, disk, provenance, call, ret>>

----------------------------------------------------------------------------
(* Bounds of the model *)

\* scores handed to _get_risk_level range over -ScoreMargin .. 100+ScoreMargin
ScoreMargin == 5

\* simulate_fire_spread is called with hours in -1 .. MaxHours
MaxHours == 3

----------------------------------------------------------------------------
(* Python helpers *)

\* dict.get(k, default)
Get(d, k, default) == IF k \in DOMAIN d THEN d[k] ELSE default

\* the dict d with d[k] = v
With(d, k, v) == (k :> v) @@ d

\* the dicts whose keys are among DOMAIN V and whose value at k is in V[k]
Dicts(V) ==
    UNION { { f \in [D -> UNION {V[k] : k \in D}] : \A k \in D : f[k] \in V[k] }
            : D \in SUBSET DOMAIN V }

min(a, b) == IF a < b THEN a ELSE b

RECURSIVE SumSeq(_)
SumSeq(s) == IF s = <<>> THEN 0 ELSE Head(s) + SumSeq(Tail(s))

\* outcomes of a call
Return(v) == [raised |-> "None", val |-> v]
Raise(e)  == [raised |-> e, val |-> "None"]

----------------------------------------------------------------------------
(* WildfireRiskModel.__init__: the ordered feature list *)

feature_names ==
    << "ndvi", "ndmi", "temperature", "humidity", "wind_speed",
       "slope", "aspect", "elevation", "distance_to_road",
       "distance_to_water", "fuel_moisture", "drought_index",
       "days_since_rain", "population_density", "historical_fires" >>

----------------------------------------------------------------------------
(* The heuristic scorers *)

\* variant: a missing fuel_moisture is 0
_calculate_vegetation_risk_default0(data) ==
    LET ndvi          == Get(data, "ndvi", 0)
        ndmi          == Get(data, "ndmi", 0)
        fuel_moisture == Get(data, "fuel_moisture", 0)
    IN  IF ndvi > 6 /\ fuel_moisture < 30 THEN 80
        ELSE IF ndvi > 4 /\ fuel_moisture < 40 THEN 60
        ELSE IF ndvi > 2 THEN 40
        ELSE 20

_calculate_vegetation_risk(data) ==
    LET ndvi          == Get(data, "ndvi", 0)
        ndmi          == Get(data, "ndmi", 0)
        fuel_moisture == Get(data, "fuel_moisture", 50)
    IN  IF ndvi > 6 /\ fuel_moisture < 30 THEN 80
        ELSE IF ndvi > 4 /\ fuel_moisture < 40 THEN 60
        ELSE IF ndvi > 2 THEN 40
        ELSE 20

_calculate_weather_risk(data) ==
    LET temp            == Get(data, "temperature", 20)
        humidity        == Get(data, "humidity", 50)
        wind_speed      == Get(data, "wind_speed", 0)
        days_since_rain == Get(data, "days_since_rain", 0)
        t == IF temp > 30 THEN 25 ELSE IF temp > 25 THEN 15 ELSE 0
        h == IF humidity < 30 THEN 25 ELSE IF humidity < 40 THEN 15 ELSE 0
        w == IF wind_speed > 20 THEN 25 ELSE IF wind_speed > 10 THEN 15 ELSE 0
        r == IF days_since_rain > 14 THEN 25 ELSE IF days_since_rain > 7 THEN 15 ELSE 0
    IN  min(t + h + w + r, 100)

\* variant: the south-facing test is 90..270
_calculate_terrain_risk_wide_south(data) ==
    LET slope  == Get(data, "slope", 0)
        aspect == Get(data, "aspect", 0)
        s == IF slope > 30 THEN 40 ELSE IF slope > 20 THEN 25
             ELSE IF slope > 10 THEN 15 ELSE 0
        a == IF 90 <= aspect /\ aspect <= 270 THEN 20 ELSE 0
    IN  s + a

\* variant: the slope tiers add up instead of excluding one another
_calculate_terrain_risk_additive(data) ==
    LET slope  == Get(data, "slope", 0)
        aspect == Get(data, "aspect", 0)
        s == (IF slope > 30 THEN 40 ELSE 0) + (IF slope > 20 THEN 25 ELSE 0)
             + (IF slope > 10 THEN 15 ELSE 0)
        a == IF 135 <= aspect /\ aspect <= 225 THEN 20 ELSE 0
    IN  s + a

_calculate_terrain_risk(data) ==
    LET slope  == Get(data, "slope", 0)
        aspect == Get(data, "aspect", 0)
        s == IF slope > 30 THEN 40 ELSE IF slope > 20 THEN 25
             ELSE IF slope > 10 THEN 15 ELSE 0
        a == IF 135 <= aspect /\ aspect <= 225 THEN 20 ELSE 0
    IN  s + a

\* variant: the population tier is worth 40
_calculate_proximity_risk_population40(data) ==
    LET distance_to_water  == Get(data, "distance_to_water", 10)
        distance_to_road   == Get(data, "distance_to_road", 1)
        population_density == Get(data, "population_density", 100)
        w == IF distance_to_water > 5 THEN 30 ELSE IF distance_to_water > 2 THEN 20 ELSE 0
        r == IF distance_to_road > 5 THEN 30 ELSE IF distance_to_road > 2 THEN 20 ELSE 0
        p == IF population_density > 1000 THEN 40 ELSE 0
    IN  min(w + r + p, 100)

_calculate_proximity_risk(data) ==
    LET distance_to_water  == Get(data, "distance_to_water", 10)
        distance_to_road   == Get(data, "distance_to_road", 1)
        population_density == Get(data, "population_density", 100)
        w == IF distance_to_water > 5 THEN 30 ELSE IF distance_to_water > 2 THEN 20 ELSE 0
        r == IF distance_to_road > 5 THEN 30 ELSE IF distance_to_road > 2 THEN 20 ELSE 0
        p == IF population_density > 1000 THEN 20 ELSE 0
    IN  min(w + r + p, 100)

----------------------------------------------------------------------------
(* Risk level and recommendations *)

\* variant: every tier's lower boundary exclusive
_get_risk_level_exclusive(risk_score) ==
    IF risk_score > 80 THEN "EXTREME"
    ELSE IF risk_score > 60 THEN "HIGH"
    ELSE IF risk_score > 40 THEN "MODERATE"
    ELSE IF risk_score > 20 THEN "LOW"
    ELSE "MINIMAL"

_get_risk_level(risk_score) ==
    IF risk_score >= 80 THEN "EXTREME"
    ELSE IF risk_score >= 60 THEN "HIGH"
    ELSE IF risk_score >= 40 THEN "MODERATE"
    ELSE IF risk_score >= 20 THEN "LOW"
    ELSE "MINIMAL"

Recommendation(priority, action, cost, reduction) ==
    [priority |-> priority, action |-> action,
     estimated_cost |-> cost, risk_reduction |-> reduction]

\* variant: the sprinkler rule reads the weather score
_generate_recommendations_weather(risk_score, veg_risk, weather_risk, terrain_risk) ==
    LET r0 == <<>>
        r1 == IF veg_risk > 60
              THEN Append(r0, Recommendation("HIGH", "Vegetation Management", 2500, 15))
              ELSE r0
        r2 == IF weather_risk > 70
              THEN Append(r1, Recommendation("HIGH", "Install Sprinkler System", 5000, 20))
              ELSE r1
        r3 == IF terrain_risk > 50
              THEN Append(r2, Recommendation("MEDIUM", "Create Fuel Breaks", 3500, 10))
              ELSE r2
    IN  Append(r3, Recommendation("MEDIUM", "Emergency Planning", 0, 5))

_generate_recommendations(risk_score, veg_risk, weather_risk, terrain_risk) ==
    LET r0 == <<>>
        r1 == IF veg_risk > 60
              THEN Append(r0, Recommendation("HIGH", "Vegetation Management", 2500, 15))
              ELSE r0
        r2 == IF risk_score > 70
              THEN Append(r1, Recommendation("HIGH", "Install Sprinkler System", 5000, 20))
              ELSE r1
        r3 == IF terrain_risk > 50
              THEN Append(r2, Recommendation("MEDIUM", "Create Fuel Breaks", 3500, 10))
              ELSE r2
    IN  Append(r3, Recommendation("MEDIUM", "Emergency Planning", 0, 5))

----------------------------------------------------------------------------
(* The single-shot spread estimate of the report                          *)
(*   spread_rate = 0.5 * (1 + wind_speed/20) * (1 + slope/30)             *)
(*               = (20 + wind_speed) * (30 + slope) / 1200                *)
(*   time_to_property_minutes = 60 / spread_rate                          *)
(* Dividing by a spread rate of zero raises ZeroDivisionError.            *)

_simulate_fire_spread(data) ==
    LET wind_speed     == Get(data, "wind_speed", 10)
        wind_direction == Get(data, "wind_direction", 0)
        slope          == Get(data, "slope", 0)
        rate_num       == (20 + wind_speed) * (30 + slope)
    IN  IF rate_num = 0
        THEN Raise("ZeroDivisionError")
        ELSE Return([spread_rate_kmh          |-> [num |-> rate_num, den |-> 1200],
                     primary_direction        |-> wind_direction,
                     time_to_property_minutes |-> [num |-> 72000, den |-> rate_num],
                     evacuation_time_needed   |-> 30,
                     safe_zones               |-> <<"North", "Northeast">>])

----------------------------------------------------------------------------
(* StandardScaler and the regression function (library code, by contract) *)

Unfitted == [fitted |-> FALSE, mean_ |-> <<>>, scale_ |-> <<>>]

Fitted(mean, scale) == [fitted |-> TRUE, mean_ |-> mean, scale_ |-> scale]

\* variant: parameters that do not follow the row (mean 0, scale 1)
FitSample_fixed(x) == Fitted([i \in 1..Len(x) |-> 0], [i \in 1..Len(x) |-> 1])

\* StandardScaler.fit on the one row x: the mean is the row, the variance is
\* zero and a zero scale is replaced by 1
FitSample(x) == Fitted(x, [i \in 1..Len(x) |-> 1])

\* StandardScaler.transform: (x - mean_) / scale_, carried in halves (the
\* scales of the model are 1 and 2, so twice the quotient is an integer)
Transform(s, x) == [i \in 1..Len(x) |-> (2 * (x[i] - s.mean_[i])) \div s.scale_[i]]

\* keras Model.predict on the normalized row z (in halves): a sigmoid output
\* scaled by 100, a function of the weights and of the row, within 0..100
Predict(m, z) ==
    LET a == m.bias + m.gain * SumSeq(z)
    IN  IF a < 0 THEN 0 ELSE IF a > 100 THEN 100 ELSE a

\* the weights a model can hold
Weights == [bias : {10, 50, 90}, gain : {1, 3}]

\* the normalization parameters a training run can fit
TrainedScalers ==
    { Fitted([i \in 1..Len(feature_names) |-> m], [i \in 1..Len(feature_names) |-> s])
      : m \in {1}, s \in {1, 2} }

----------------------------------------------------------------------------
(* WildfireRiskModel.calculate_risk_score *)

\* the 15-value row handed to the scaler: a missing feature is 0
Features(property_data) ==
    [i \in 1..Len(feature_names) |-> Get(property_data, feature_names[i], 0)]

\* the value the method returns or the exception it re-raises, given the
\* scaler as fit_transform has left it
RiskReport(property_data, fitted_scaler) ==
    LET features_normalized == Transform(fitted_scaler, Features(property_data))
        risk_score      == Predict(model, features_normalized)
        vegetation_risk == _calculate_vegetation_risk(property_data)
        weather_risk    == _calculate_weather_risk(property_data)
        terrain_risk    == _calculate_terrain_risk(property_data)
        proximity_risk  == _calculate_proximity_risk(property_data)
        recommendations == _generate_recommendations(
                               risk_score, vegetation_risk, weather_risk, terrain_risk)
        fire_spread     == _simulate_fire_spread(property_data)
    IN  IF fire_spread.raised # "None"
        THEN Raise(fire_spread.raised)
        ELSE Return([overall_risk_score     |-> risk_score,
                     risk_level             |-> _get_risk_level(risk_score),
                     component_scores       |->
                         [vegetation_risk |-> vegetation_risk,
                          weather_risk    |-> weather_risk,
                          terrain_risk    |-> terrain_risk,
                          proximity_risk  |-> proximity_risk],
                     recommendations        |-> recommendations,
                     fire_spread_simulation |-> fire_spread.val,
                     confidence_score       |-> "0.85",
                     assessment_timestamp   |-> "now"])

calculate_risk_score(property_data) ==
    LET fitted_scaler == FitSample(Features(property_data))
    IN  /\ scaler' = fitted_scaler
        /\ call' = [fn |-> "calculate_risk_score", args |-> property_data]
        /\ ret' = RiskReport(property_data, fitted_scaler)
        /\ UNCHANGED <<model, disk, provenance>>

----------------------------------------------------------------------------
(* WildfireRiskModel.train, save_model, load_model *)

\* the training data is not modelled: a run leaves some weights in the model
\* and some fitted parameters in the scaler
train ==
    \E w \in Weights, s \in TrainedScalers :
        /\ model' = w
        /\ scaler' = s
        /\ provenance' = "trained"
        /\ call' = [fn |-> "train", args |-> <<>>]
        /\ ret' = Return("history")
        /\ UNCHANGED disk

\* variant: only scaler_params.npy is written, the weights file is left as it was
save_model_scaler_only ==
    /\ call' = [fn |-> "save_model", args |-> <<>>]
    /\ IF scaler.fitted
       THEN /\ disk' = [h5  |-> disk.h5,
                        npy |-> <<[mean |-> scaler.mean_, scale |-> scaler.scale_]>>]
            /\ ret' = Return("None")
       ELSE /\ disk' = disk
            /\ ret' = Raise("AttributeError")
    /\ UNCHANGED <<model, scaler, provenance>>

\* model.save writes the weights first; reading scaler.mean_ of a scaler that
\* was never fitted then raises, and scaler_params.npy is not written
save_model ==
    /\ call' = [fn |-> "save_model", args |-> <<>>]
    /\ IF scaler.fitted
       THEN /\ disk' = [h5  |-> <<model>>,
                        npy |-> <<[mean |-> scaler.mean_, scale |-> scaler.scale_]>>]
            /\ ret' = Return("None")
       ELSE /\ disk' = [h5 |-> <<model>>, npy |-> disk.npy]
            /\ ret' = Raise("AttributeError")
    /\ UNCHANGED <<model, scaler, provenance>>

\* the weights are assigned before scaler_params.npy is read
load_model ==
    /\ call' = [fn |-> "load_model", args |-> <<>>]
    /\ IF disk.h5 = <<>>
       THEN /\ ret' = Raise("OSError")
            /\ UNCHANGED <<model, scaler, provenance>>
       ELSE /\ model' = disk.h5[1]
            /\ provenance' = "loaded"
            /\ IF disk.npy = <<>>
               THEN /\ ret' = Raise("FileNotFoundError")
                    /\ UNCHANGED scaler
               ELSE /\ scaler' = Fitted(disk.npy[1].mean, disk.npy[1].scale)
                    /\ ret' = Return("None")
    /\ UNCHANGED disk

----------------------------------------------------------------------------
(* Construction: api_server builds the process-wide model from MODEL_PATH  *)
(* when that path exists (load_model) and from build_model otherwise       *)

NoArtifacts == [h5 |-> <<>>, npy |-> <<>>]

Artifacts ==
    { [h5 |-> <<w>>, npy |-> <<[mean |-> s.mean_, scale |-> s.scale_]>>]
      : w \in Weights, s \in TrainedScalers }

Constructed ==
    \/ /\ disk = NoArtifacts
       /\ model \in Weights
       /\ scaler = Unfitted
       /\ provenance = "built"
    \/ /\ disk \in Artifacts
       /\ model = disk.h5[1]
       /\ scaler = Fitted(disk.npy[1].mean, disk.npy[1].scale)
       /\ provenance = "loaded"

Init ==
    /\ Constructed
    /\ call = [fn |-> "__init__", args |-> <<>>]
    /\ ret = Return("None")

----------------------------------------------------------------------------
(* Direct calls of the helpers.  A call is first issued with its arguments *)
(* (its outcome pending) and then carried out.                             *)

Pending == [raised |-> "pending", val |-> "None"]

Request(fn, args) == [fn |-> fn, args |-> args]

Issued(fn) == call.fn = fn /\ ret = Pending

Outcome(outcome) ==
    /\ ret' = outcome
    /\ UNCHANGED <<model, scaler, disk, provenance, call>>

ScoreDomain == (0 - ScoreMargin) .. (100 + ScoreMargin)

RecommendationInputs ==
    {70, 71, 75} \X {60, 61, 70} \X {0, 50, 100} \X {40, 50, 51}

VegetationInputs ==
    Dicts([ndvi |-> {-1, 2, 3, 4, 5, 6, 7, 10}, ndmi |-> {5},
           fuel_moisture |-> {-5, 20, 29, 30, 39, 40, 60}])

WeatherInputs ==
    Dicts([temperature |-> {-10, 25, 26, 30, 31, 35}, humidity |-> {20, 29, 30, 39, 40},
           wind_speed |-> {-20, 10, 11, 20, 21, 25}, days_since_rain |-> {7, 8, 14, 15, 20}])

TerrainInputs ==
    Dicts([slope |-> {-30, 5, 10, 11, 20, 21, 30, 31, 35, 1000},
           aspect |-> {-90, 134, 135, 180, 225, 226, 1000}])

ProximityInputs ==
    Dicts([distance_to_water |-> {-1, 2, 3, 5, 6, 10}, distance_to_road |-> {-1, 2, 3, 5, 6, 10},
           population_density |-> {-1, 1000, 1001, 2000}])

SpreadInputs ==
    Dicts([wind_speed |-> {-40, -20, 0, 10, 20}, wind_direction |-> {225},
           slope |-> {-60, -30, 0, 20, 30}])

GetRiskLevelCall ==
    /\ Issued("_get_risk_level")
    /\ Outcome(Return(_get_risk_level(call.args)))

GenerateRecommendationsCall ==
    /\ Issued("_generate_recommendations")
    /\ Outcome(Return(_generate_recommendations(
                          call.args[1], call.args[2], call.args[3], call.args[4])))

VegetationRiskCall ==
    /\ Issued("_calculate_vegetation_risk")
    /\ Outcome(Return(_calculate_vegetation_risk(call.args)))

WeatherRiskCall ==
    /\ Issued("_calculate_weather_risk")
    /\ Outcome(Return(_calculate_weather_risk(call.args)))

TerrainRiskCall ==
    /\ Issued("_calculate_terrain_risk")
    /\ Outcome(Return(_calculate_terrain_risk(call.args)))

ProximityRiskCall ==
    /\ Issued("_calculate_proximity_risk")
    /\ Outcome(Return(_calculate_proximity_risk(call.args)))

SimulateFireSpreadCall ==
    /\ Issued("_simulate_fire_spread")
    /\ Outcome(_simulate_fire_spread(call.args))

----------------------------------------------------------------------------
(* api_server.simulate_fire_spread: the hourly projection                  *)
(*   spread_rate = 0.5 * (1 + wind_speed/10 + slope/20)                    *)
(*               = (20 + 2*wind_speed + slope) / 40                        *)
(* radius_km is carried in 1/40 km, area_hectares in units of              *)
(* 3.14159*100/1600 ha and perimeter_km in units of 2*3.14159/40 km.       *)

\* variant: the rate without its constant term, 0.5 * (wind_speed/10 + slope/20)
spread_rate_no_base(weather_conditions, terrain_data) ==
    2 * Get(weather_conditions, "wind_speed", 10) + Get(terrain_data, "slope", 10)

spread_rate(weather_conditions, terrain_data) ==
    20 + 2 * Get(weather_conditions, "wind_speed", 10) + Get(terrain_data, "slope", 10)

RECURSIVE SpreadLoop(_, _, _, _, _, _)
SpreadLoop(weather_conditions, terrain_data, hours, hour, current_radius, spread_patterns) ==
    IF hour >= hours
    THEN spread_patterns
    ELSE LET radius == current_radius + spread_rate(weather_conditions, terrain_data)
         IN  SpreadLoop(weather_conditions, terrain_data, hours, hour + 1, radius,
                        Append(spread_patterns,
                               [hour          |-> hour,
                                radius_km     |-> radius,
                                area_hectares |-> radius * radius,
                                perimeter_km  |-> radius]))

\* spread_patterns[-1] of an empty list raises IndexError, which the handler
\* turns into HTTPException(500)
simulate_fire_spread(start_point, weather_conditions, terrain_data, hours) ==
    LET spread_patterns == SpreadLoop(weather_conditions, terrain_data, hours, 0, 0, <<>>)
    IN  IF spread_patterns = <<>>
        THEN Raise("HTTPException(500)")
        ELSE Return([start_point         |-> start_point,
                     spread_patterns     |-> spread_patterns,
                     total_area_hectares |->
                         spread_patterns[Len(spread_patterns)].area_hectares,
                     conditions          |-> [weather |-> weather_conditions,
                                              terrain |-> terrain_data]])

SimulationInputs ==
    [start_point        : {[lat |-> 0, lon |-> 0]},
     weather_conditions : Dicts([wind_speed |-> {-40, 0, 10, 20}]),
     terrain_data       : Dicts([slope |-> {-20, 0, 20, 40}]),
     hours              : (0 - 1) .. MaxHours]

SimulateFireSpreadRequest ==
    /\ Issued("simulate_fire_spread")
    /\ Outcome(simulate_fire_spread(call.args.start_point, call.args.weather_conditions,
                                    call.args.terrain_data, call.args.hours))

----------------------------------------------------------------------------
(* Specifications *)

\* the inputs of the inference calls of the lifecycle
ServingInputs == Dicts([wind_speed |-> {-20, 15}, slope |-> {35}])

\* the inputs of the report specification
ReportInputs ==
    Dicts([ndvi |-> {5, 7}, fuel_moisture |-> {20}, slope |-> {-30, 35},
           aspect |-> {180}, wind_speed |-> {-20, 15}])

Serve == \E pd \in ServingInputs : calculate_risk_score(pd)

Assess == \E pd \in ReportInputs : calculate_risk_score(pd)

\* the lifecycle of the process-wide model
Next == Serve \/ train \/ save_model \/ load_model

Spec == Init /\ [][Next]_vars

\* inference only, over the richer inputs
NextReport == Assess

SpecReport == Init /\ [][NextReport]_vars

\* risk levels: direct calls of _get_risk_level and reports
InitLevel ==
    /\ Constructed
    /\ \/ /\ call \in {Request("_get_risk_level", s) : s \in ScoreDomain}
          /\ ret = Pending
       \/ /\ call = [fn |-> "__init__", args |-> <<>>]
          /\ ret = Return("None")

NextLevel == GetRiskLevelCall \/ Serve

SpecLevel == InitLevel /\ [][NextLevel]_vars

\* direct calls of the pure helpers
HelperRequests ==
    {Request("_generate_recommendations", a) : a \in RecommendationInputs}
    \cup {Request("_calculate_vegetation_risk", d) : d \in VegetationInputs}
    \cup {Request("_calculate_weather_risk", d) : d \in WeatherInputs}
    \cup {Request("_calculate_terrain_risk", d) : d \in TerrainInputs}
    \cup {Request("_calculate_proximity_risk", d) : d \in ProximityInputs}
    \cup {Request("_simulate_fire_spread", d) : d \in SpreadInputs}

InitHelpers ==
    /\ Constructed
    /\ call \in HelperRequests
    /\ ret = Pending

NextHelpers ==
    \/ GenerateRecommendationsCall
    \/ VegetationRiskCall
    \/ WeatherRiskCall
    \/ TerrainRiskCall
    \/ ProximityRiskCall
    \/ SimulateFireSpreadCall

SpecHelpers == InitHelpers /\ [][NextHelpers]_vars

\* the fire-spread endpoint
InitSimulation ==
    /\ Constructed
    /\ call \in {Request("simulate_fire_spread", a) : a \in SimulationInputs}
    /\ ret = Pending

NextSimulation == SimulateFireSpreadRequest

SpecSimulation == InitSimulation /\ [][NextSimulation]_vars

----------------------------------------------------------------------------
(* Properties *)

Returned(fn) == call.fn = fn /\ ret.raised = "None"

\* the label l is the tier of the score s, each tier's lower boundary inclusive
IsLabelOf(l, s) ==
    /\ l = "EXTREME"  <=> s >= 80
    /\ l = "HIGH"     <=> (60 <= s /\ s < 80)
    /\ l = "MODERATE" <=> (40 <= s /\ s < 60)
    /\ l = "LOW"      <=> (20 <= s /\ s < 40)
    /\ l = "MINIMAL"  <=> s < 20

\* C1: _get_risk_level(s) is EXTREME iff s >= 80, HIGH iff 60 <= s < 80,
\* MODERATE iff 40 <= s < 60, LOW iff 20 <= s < 40 and MINIMAL iff s < 20, and
\* the risk_level of a report is this label of the report's own
\* overall_risk_score.
C1_RiskLevel ==
    /\ Returned("_get_risk_level") => IsLabelOf(ret.val, call.args)
    /\ Returned("calculate_risk_score") =>
           IsLabelOf(ret.val.risk_level, ret.val.overall_risk_score)

C1_Witness ==
    /\ Returned("_get_risk_level")
    /\ call.args = 80
    /\ ret.val = "EXTREME"

ActionNames == << "Vegetation Management", "Install Sprinkler System",
                  "Create Fuel Breaks", "Emergency Planning" >>

ActionsOf(recommendations) ==
    [i \in 1..Len(recommendations) |-> recommendations[i].action]

\* C2: _generate_recommendations returns exactly the sub-sequence of
\* [Vegetation Management, Install Sprinkler System, Create Fuel Breaks,
\* Emergency Planning] that keeps the first iff veg_risk > 60, the second iff
\* risk_score > 70, the third iff terrain_risk > 50 and always the fourth, last;
\* the list has 1 to 4 entries, does not depend on weather_risk, and for
\* (overall 75, veg 70, terrain 40) is [Vegetation Management, Install
\* Sprinkler System, Emergency Planning].
C2_Recommendations ==
    Returned("_generate_recommendations") =>
        LET risk_score   == call.args[1]
            veg_risk     == call.args[2]
            terrain_risk == call.args[4]
            actions      == ActionsOf(ret.val)
            Kept(a) == \/ a = "Vegetation Management" /\ veg_risk > 60
                       \/ a = "Install Sprinkler System" /\ risk_score > 70
                       \/ a = "Create Fuel Breaks" /\ terrain_risk > 50
                       \/ a = "Emergency Planning"
        IN  /\ actions = SelectSeq(ActionNames, Kept)
            /\ Len(actions) \in 1..4
            /\ actions[Len(actions)] = "Emergency Planning"
            /\ \A w \in {a[3] : a \in RecommendationInputs} :
                   _generate_recommendations(risk_score, veg_risk, w, terrain_risk) = ret.val
            /\ (risk_score = 75 /\ veg_risk = 70 /\ terrain_risk = 40) =>
                   actions = << "Vegetation Management", "Install Sprinkler System",
                                "Emergency Planning" >>

C2_Witness ==
    /\ Returned("_generate_recommendations")
    /\ call.args = <<75, 70, 50, 40>>
    /\ Len(ret.val) = 3

\* C3: inference does not mutate the trained model: a calculate_risk_score
\* call leaves the model and the scaler's mean and scale as they were before
\* the call.
C3_InferenceLeavesModel ==
    [][Serve => (model' = model /\ scaler' = scaler)]_vars

ReportFields ==
    {"overall_risk_score", "risk_level", "component_scores", "recommendations",
     "fire_spread_simulation", "confidence_score", "assessment_timestamp"}

\* C4: report assembly never fails on its own: for every feature mapping with
\* numeric values, zero or negative wind_speed and slope included, for which
\* inference returns a score, calculate_risk_score returns a complete report.
C4_ReportNeverFails ==
    call.fn = "calculate_risk_score" =>
        /\ ret.raised = "None"
        /\ DOMAIN ret.val = ReportFields
        /\ DOMAIN ret.val.component_scores =
               {"vegetation_risk", "weather_risk", "terrain_risk", "proximity_risk"}

\* C5: a calculate_risk_score call on a service whose model was never trained
\* or loaded, or whose scaler holds no fitted mean and scale, raises an error
\* instead of returning an overall_risk_score.
C5_FailsLoudly ==
    [][(Serve /\ (provenance = "built" \/ ~scaler.fitted)) => ret'.raised # "None"]_vars

\* C6 (as amended): vegetation_risk, weather_risk and proximity_risk lie in
\* [0,100]; terrain_risk has no upper clamp but is bounded all the same: it
\* lies in [0,60].
C6_ScoreRanges ==
    /\ Returned("_calculate_vegetation_risk") => ret.val \in 0..100
    /\ Returned("_calculate_weather_risk") => ret.val \in 0..100
    /\ Returned("_calculate_proximity_risk") => ret.val \in 0..100
    /\ Returned("_calculate_terrain_risk") => ret.val \in 0..60

C6_Witness ==
    /\ Returned("_calculate_terrain_risk")
    /\ Get(call.args, "slope", 0) = 1000
    /\ Get(call.args, "aspect", 0) = 180
    /\ ret.val = 60

\* C6 (as stated): vegetation_risk, weather_risk and proximity_risk lie in
\* [0,100], whereas terrain_risk can exceed 100.
C6_TerrainExceeds100 ==
    /\ Returned("_calculate_vegetation_risk") => ret.val \in 0..100
    /\ Returned("_calculate_weather_risk") => ret.val \in 0..100
    /\ Returned("_calculate_proximity_risk") => ret.val \in 0..100
    /\ Returned("_calculate_terrain_risk") =>
           \E d \in TerrainInputs : _calculate_terrain_risk(d) > 100

ProximityKeys == {"distance_to_water", "distance_to_road", "population_density"}

\* the sum of the three tiers of proximity_risk, clamped to 100
ProximityTiers(water, road, population) ==
    LET w == IF water > 5 THEN 30 ELSE IF water > 2 THEN 20 ELSE 0
        r == IF road > 5 THEN 30 ELSE IF road > 2 THEN 20 ELSE 0
        p == IF population > 1000 THEN 20 ELSE 0
    IN  IF w + r + p > 100 THEN 100 ELSE w + r + p

IsProximityExample(d) ==
    /\ DOMAIN d = ProximityKeys
    /\ d["distance_to_water"] = 10
    /\ d["distance_to_road"] = 10
    /\ d["population_density"] = 2000

\* C7 (as amended): proximity_risk is the sum of the water tier (>5 gives 30,
\* else >2 gives 20), the road tier (>5 gives 30, else >2 gives 20) and the
\* population tier (>1000 gives 20), clamped to 100; for distance_to_water 10,
\* distance_to_road 10, population_density 2000 the result is 80.
C7_Proximity ==
    (Returned("_calculate_proximity_risk") /\ DOMAIN call.args = ProximityKeys) =>
        /\ ret.val = ProximityTiers(call.args["distance_to_water"],
                                    call.args["distance_to_road"],
                                    call.args["population_density"])
        /\ IsProximityExample(call.args) => ret.val = 80

C7_Witness ==
    /\ Returned("_calculate_proximity_risk")
    /\ IsProximityExample(call.args)
    /\ ret.val = 80

\* C7 (as stated): ... for distance_to_water 10, distance_to_road 10,
\* population_density 2000 the result is 100.
C7_ExampleIs100 ==
    (Returned("_calculate_proximity_risk") /\ DOMAIN call.args = ProximityKeys) =>
        /\ ret.val = ProximityTiers(call.args["distance_to_water"],
                                    call.args["distance_to_road"],
                                    call.args["population_density"])
        /\ IsProximityExample(call.args) => ret.val = 100

\* the keys each scorer reads
KeysRead ==
    [_calculate_vegetation_risk |-> {"ndvi", "ndmi", "fuel_moisture"},
     _calculate_weather_risk    |-> {"temperature", "humidity", "wind_speed", "days_since_rain"},
     _calculate_terrain_risk    |-> {"slope", "aspect"},
     _calculate_proximity_risk  |-> ProximityKeys]

Score(fn, d) ==
    CASE fn = "_calculate_vegetation_risk" -> _calculate_vegetation_risk(d)
      [] fn = "_calculate_weather_risk"    -> _calculate_weather_risk(d)
      [] fn = "_calculate_terrain_risk"    -> _calculate_terrain_risk(d)
      [] fn = "_calculate_proximity_risk"  -> _calculate_proximity_risk(d)

\* the value a scorer uses for a key that is missing
ScorerDefault ==
    [ndvi |-> 0, ndmi |-> 0, fuel_moisture |-> 50,
     temperature |-> 20, humidity |-> 50, wind_speed |-> 0, days_since_rain |-> 0,
     slope |-> 0, aspect |-> 0,
     distance_to_water |-> 10, distance_to_road |-> 1, population_density |-> 100]

\* C8 (as amended): in the four heuristic scorers a missing key is treated as
\* the scorer's own default for that key (0 for ndvi, ndmi, wind_speed,
\* days_since_rain, slope and aspect; 50 for fuel_moisture, 20 for temperature,
\* 50 for humidity, 10 for distance_to_water, 1 for distance_to_road, 100 for
\* population_density): the score of m with k absent equals the score of m
\* with k present and equal to that default.
C8_MissingKeyDefault ==
    (call.fn \in DOMAIN KeysRead /\ ret.raised = "None") =>
        \A k \in KeysRead[call.fn] \ DOMAIN call.args :
            ret.val = Score(call.fn, With(call.args, k, ScorerDefault[k]))

C8_Witness ==
    /\ Returned("_calculate_vegetation_risk")
    /\ DOMAIN call.args = {"ndvi"}
    /\ call.args["ndvi"] = 7
    /\ ret.val = 40
    /\ Score(call.fn, With(call.args, "fuel_moisture", 0)) = 80

\* C8 (as stated): in the four heuristic scorers a missing key is treated as
\* the value 0: the score of m with k absent equals the score of m with k
\* present and equal to 0.
C8_MissingKeyIsZero ==
    (call.fn \in DOMAIN KeysRead /\ ret.raised = "None") =>
        \A k \in KeysRead[call.fn] \ DOMAIN call.args :
            ret.val = Score(call.fn, With(call.args, k, 0))

\* the hourly spread rate in 1/40 km per hour: 0.5 * (1 + wind/10 + slope/20)
RequestedRate ==
    20 + 2 * Get(call.args.weather_conditions, "wind_speed", 10)
       + Get(call.args.terrain_data, "slope", 10)

IsSpreadExample ==
    /\ Get(call.args.weather_conditions, "wind_speed", 10) = 10
    /\ Get(call.args.terrain_data, "slope", 10) = 20

\* C9 (as amended): in the hourly projection the spread rate is the same every
\* hour and the radius is strictly additive, the sample of hour h having
\* radius_km = (h+1) x spread_rate from radius 0; with wind_speed 10 and slope
\* 20 the spread rate is 1.5 km/h, so the radius is 1.5 after hour 0 and 3.0
\* after hour 1.
C9_AdditiveRadius ==
    Returned("simulate_fire_spread") =>
        LET samples == ret.val.spread_patterns
        IN  /\ \A i \in 1..Len(samples) :
                   samples[i].radius_km = (samples[i].hour + 1) * RequestedRate
            /\ IsSpreadExample =>
                   /\ spread_rate(call.args.weather_conditions, call.args.terrain_data) = 60
                   /\ samples[1].radius_km = 60
                   /\ Len(samples) >= 2 => samples[2].radius_km = 120

C9_Witness ==
    /\ Returned("simulate_fire_spread")
    /\ IsSpreadExample
    /\ Len(ret.val.spread_patterns) >= 2
    /\ ret.val.spread_patterns[2].radius_km = 120

\* C9 (as stated): ... with wind_speed 10 and slope 20 the spread rate is 1.0
\* km/h, so the radius is 1.0 after hour 0 and 2.0 after hour 1.
C9_ExampleRateIs1 ==
    Returned("simulate_fire_spread") =>
        LET samples == ret.val.spread_patterns
        IN  /\ \A i \in 1..Len(samples) :
                   samples[i].radius_km = (samples[i].hour + 1) * RequestedRate
            /\ IsSpreadExample =>
                   /\ spread_rate(call.args.weather_conditions, call.args.terrain_data) = 40
                   /\ samples[1].radius_km = 40
                   /\ Len(samples) >= 2 => samples[2].radius_km = 80

\* C10: for every wind speed, slope and duration the endpoint accepts, it
\* returns a projection whose samples are ordered by hour 0..hours-1, whose
\* radius_km is non-decreasing from each sample to the next, and whose
\* total_area_hectares is the area_hectares of the last sample.
C10_Projection ==
    (call.fn = "simulate_fire_spread" /\ ret # Pending) =>
        /\ ret.raised = "None"
        /\ LET samples == ret.val.spread_patterns
           IN  /\ Len(samples) = call.args.hours
               /\ \A i \in 1..Len(samples) : samples[i].hour = i - 1
               /\ \A i \in 1..(Len(samples) - 1) :
                      samples[i].radius_km <= samples[i + 1].radius_km
               /\ ret.val.total_area_hectares = samples[Len(samples)].area_hectares

\* what calculate_risk_score of the instance, as it now is, yields for x
Inference(x) == RiskReport(x, FitSample(Features(x)))

HasSprinkler(report) ==
    \E i \in 1..Len(report.recommendations) :
        report.recommendations[i].action = "Install Sprinkler System"

\* C12: the scaler being re-fitted on the single row of each call, the
\* normalized row handed to the regression function is the same constant row
\* for every feature mapping; so, for a fixed model, overall_risk_score,
\* risk_level and the presence of Install Sprinkler System are the same for
\* any two feature mappings.
C12_ScoreIgnoresFeatures ==
    call.fn = "calculate_risk_score" =>
        /\ Transform(scaler, Features(call.args)) = [i \in 1..Len(feature_names) |-> 0]
        /\ ret.raised = "None" =>
               \A x \in ReportInputs :
                   Inference(x).raised = "None" =>
                       /\ Inference(x).val.overall_risk_score = ret.val.overall_risk_score
                       /\ Inference(x).val.risk_level = ret.val.risk_level
                       /\ HasSprinkler(Inference(x).val) <=> HasSprinkler(ret.val)

C12_Witness ==
    /\ Returned("calculate_risk_score")
    /\ call.args = [ndvi |-> 7, fuel_moisture |-> 20, slope |-> 35, aspect |-> 180,
                    wind_speed |-> 15]
    /\ ret.val.overall_risk_score = Inference(<<>>).val.overall_risk_score
    /\ HasSprinkler(ret.val)

----------------------------------------------------------------------------
(* Terrain scores and the advice of a report *)

AdviceInputs ==
    Dicts([ndvi |-> {6, 7}, fuel_moisture |-> {29, 30},
           slope |-> {11, 21, 30, 31}, aspect |-> {134, 135, 225, 226}])

AssessRequest ==
    /\ Issued("calculate_risk_score")
    /\ calculate_risk_score(call.args)

InitAdvice ==
    /\ Constructed
    /\ call \in {Request("_calculate_terrain_risk", d) : d \in TerrainInputs}
                \cup {Request("calculate_risk_score", d) : d \in AdviceInputs}
    /\ ret = Pending

NextAdvice == TerrainRiskCall \/ AssessRequest

SpecAdvice == InitAdvice /\ [][NextAdvice]_vars

TerrainValues == {0, 15, 20, 25, 35, 40, 45, 60}

Recommends(report, action) ==
    \E i \in 1..Len(report.recommendations) : report.recommendations[i].action = action

\* C13: terrain_risk only takes the values 0, 15, 20, 25, 35, 40, 45 and 60, so
\* it never exceeds 60; in a report of calculate_risk_score, Create Fuel
\* Breaks is recommended iff slope > 30 and 135 <= aspect <= 225, and
\* Vegetation Management iff ndvi > 0.6 and fuel_moisture < 30.
C13_TerrainAndAdvice ==
    /\ Returned("_calculate_terrain_risk") => ret.val \in TerrainValues
    /\ Returned("calculate_risk_score") =>
           LET slope         == Get(call.args, "slope", 0)
               aspect        == Get(call.args, "aspect", 0)
               ndvi          == Get(call.args, "ndvi", 0)
               fuel_moisture == Get(call.args, "fuel_moisture", 50)
           IN  /\ ret.val.component_scores.terrain_risk \in TerrainValues
               /\ ret.val.component_scores.terrain_risk <= 60
               /\ Recommends(ret.val, "Create Fuel Breaks")
                      <=> (slope > 30 /\ 135 <= aspect /\ aspect <= 225)
               /\ Recommends(ret.val, "Vegetation Management")
                      <=> (ndvi > 6 /\ fuel_moisture < 30)

C13_Witness ==
    /\ Returned("calculate_risk_score")
    /\ call.args = [ndvi |-> 7, fuel_moisture |-> 29, slope |-> 31, aspect |-> 135]
    /\ ret.val.component_scores.terrain_risk = 60
    /\ Recommends(ret.val, "Create Fuel Breaks")
    /\ Recommends(ret.val, "Vegetation Management")

====
